---- MODULE Spec2Model ----
(***************************************************************************)
(* UMLS Inconsistency Checker (src/umls_inconsistency_checker.py).         *)
(*                                                                         *)
(* main() parses MRREL.RRF into parent-child and broader-than edge sets,   *)
(* runs detect_cycles on the parent-child adjacency mapping and            *)
(* detect_broader_violations on the broader-than digraph, and hands the    *)
(* results to save_results.                                                *)
(*                                                                         *)
(* A concept identifier (CUI) is modelled by a positive integer; the       *)
(* integer order stands for the lexicographic order of the CUI strings     *)
(* that sorted() uses.  Iterating a Python set has no fixed order (string  *)
(* hashes are randomised per process), so every loop over a set is a       *)
(* nondeterministic choice of the enumeration.                             *)
(***************************************************************************)
EXTENDS Integers, Sequences, FiniteSets, Bags, TLC

\* ---------------------------------------------------------------- bounds
\* identifiers that occur in the lines of the input file (Spec)
NumCuis == 3
\* lines the input file holds at most (Spec)
MaxRecords == 2
\* nodes of the edge sets the detector specifications start from
NumNodes == 3
\* size of the Hierarchy edge sets SpecCycles and SpecRerun start from
MaxEdges == 4
\* size of the Dominance edge sets SpecDominance starts from
MaxBtEdges == 3

Cuis == 1..NumCuis
Nodes == 1..NumNodes

\* ------------------------------------------------------- program constants
\* a line with fewer fields than this is skipped (len(parts) < 5)
MinFields == 5

\* the four recognised relation codes and one code that is none of them
Relations == {"CHD", "PAR", "RB", "RN", "RO"}
Scopes == {"parent-child", "broader-than", "both"}

\* A line after split("|"): fields 0, 3 and 4 are read, 1 and 2 are not.
FullLines == {<<s, "", "", r, t>> : s \in Cuis, r \in Relations, t \in Cuis}
\* a line with too few fields
ShortLines == {<<1, "", "", "PAR">>}
Lines == FullLines \cup ShortLines

VARIABLES
  pc,                  \* position of main()
  fileExists,          \* does the --input path exist
  scope,               \* args.type
  nread,               \* lines read so far by the parse loop
  seen,                \* bag of the lines read so far (history of the input)
  parent_child_edges,
  broader_than_edges,
  duplicate_edges,     \* Counter: canonical edge -> count
  self_loops,
  relationship_types,
  stats,               \* metric name -> value
  log,                 \* messages main() passed to logger.info
  pc_graph,            \* defaultdict(list): [keys (insertion order), adj]
  roots,               \* list(graph) taken by detect_cycles
  rootIdx,             \* next element of roots
  visited,
  rec_stack,
  path,
  all_cycles,
  unique_cycles,
  calls,               \* active dfs calls, innermost last: [node, i]
  cycles,              \* main(): result of detect_cycles
  bt_graph,            \* nx.DiGraph: [nodes (insertion order), edges]
  descendants,
  srcIdx,              \* next node of the loop "for src in graph"
  violations,
  saved,               \* reports handed to save_results
  run,                 \* which run over the same input this is
  prevCycleSets        \* cycle vertex sets the previous run reported

parseVars == <<nread, seen, parent_child_edges, broader_than_edges,
               duplicate_edges, self_loops, relationship_types>>
dfsVars == <<pc_graph, roots, rootIdx, visited, rec_stack, path, all_cycles,
             unique_cycles, calls>>
btVars == <<bt_graph, descendants, srcIdx, violations>>
vars == <<pc, fileExists, scope, parseVars, stats, log, dfsVars, cycles,
          btVars, saved, run, prevCycleSets>>

\* ------------------------------------------------------------- helpers
EmptyMap == [x \in {} |-> 0]
EmptyGraph == [keys |-> <<>>, adj |-> EmptyMap]
EmptyDiGraph == [nodes |-> <<>>, edges |-> {}]

Range(s) == {s[i] : i \in 1..Len(s)}

\* dict/Counter item assignment
Put(m, k, v) == [x \in DOMAIN m \cup {k} |-> IF x = k THEN v ELSE m[x]]

\* Counter lookup: a missing key counts 0
Count(m, k) == IF k \in DOMAIN m THEN m[k] ELSE 0

\* ------------------------------------------------------------ parse_mrrel
IsSelfLoop_Never(source, target) == FALSE

\* line 52
IsSelfLoop(source, target) == source = target

CanonicalEdge_NoSwap(source, relation, target) == <<source, target>>

\* lines 56-71: the edge a record of a recognised relation stands for
CanonicalEdge(source, relation, target) ==
  IF relation \in {"CHD", "RN"} THEN <<target, source>>
  ELSE <<source, target>>

ParseFileMissing_Unchecked ==
  /\ pc = "start"
  /\ ~fileExists
  /\ log' = Append(log, "Parsing input file...")
  /\ pc' = "reading"
  /\ UNCHANGED <<fileExists, scope, parseVars, stats, dfsVars, cycles, btVars,
                 saved, run, prevCycleSets>>

\* main() calls parse_mrrel on a path that does not exist: FileNotFoundError
\* is raised before the file is opened and nothing in main() catches it.
ParseFileMissing ==
  /\ pc = "start"
  /\ ~fileExists
  /\ log' = Append(log, "Parsing input file...")
  /\ pc' = "FileNotFoundError"
  /\ UNCHANGED <<fileExists, scope, parseVars, stats, dfsVars, cycles, btVars,
                 saved, run, prevCycleSets>>

ParseOpen ==
  /\ pc = "start"
  /\ fileExists
  /\ log' = Append(log, "Parsing input file...")
  /\ pc' = "reading"
  /\ nread' = 0
  /\ seen' = EmptyBag
  /\ parent_child_edges' = {}
  /\ broader_than_edges' = {}
  /\ duplicate_edges' = EmptyMap
  /\ self_loops' = {}
  /\ relationship_types' = {}
  /\ UNCHANGED <<fileExists, scope, stats, dfsVars, cycles, btVars, saved,
                 run, prevCycleSets>>

\* one iteration of the loop over the lines of the file
ParseLine ==
  /\ pc = "reading"
  /\ nread < MaxRecords
  /\ \E parts \in Lines :
       /\ nread' = nread + 1
       /\ seen' = seen (+) SetToBag({parts})
       /\ IF Len(parts) < MinFields
          THEN UNCHANGED <<parent_child_edges, broader_than_edges,
                           duplicate_edges, self_loops, relationship_types>>
          ELSE LET source == parts[1]
                   relation == parts[4]
                   target == parts[5]
                   edge == CanonicalEdge(source, relation, target)
               IN /\ relationship_types' = relationship_types \cup {relation}
                  /\ IF IsSelfLoop(source, target)
                     THEN /\ self_loops' = self_loops \cup {<<source, relation>>}
                          /\ UNCHANGED <<parent_child_edges, broader_than_edges,
                                         duplicate_edges>>
                     ELSE /\ UNCHANGED self_loops
                          /\ parent_child_edges' =
                               IF relation \in {"CHD", "PAR"}
                               THEN parent_child_edges \cup {edge}
                               ELSE parent_child_edges
                          /\ broader_than_edges' =
                               IF relation \in {"RB", "RN"}
                               THEN broader_than_edges \cup {edge}
                               ELSE broader_than_edges
                          /\ duplicate_edges' =
                               IF relation \in {"CHD", "PAR", "RB", "RN"}
                               THEN Put(duplicate_edges, edge,
                                        Count(duplicate_edges, edge) + 1)
                               ELSE duplicate_edges
  /\ UNCHANGED <<pc, fileExists, scope, stats, log, dfsVars, cycles, btVars,
                 saved, run, prevCycleSets>>

\* lines 182-188: the statistics main() derives from the parse result
ParseStats(pc_edges, bt_edges, rel_types, loops, dupes) ==
  ("Total Parent-Child Relationships" :> Cardinality(pc_edges)) @@
  ("Total Broader-Than Relationships" :> Cardinality(bt_edges)) @@
  ("Total Unique Relationship Types" :> Cardinality(rel_types)) @@
  ("Total Self-Loops" :> Cardinality(loops)) @@
  ("Total Duplicates" :> Cardinality({e \in DOMAIN dupes : dupes[e] > 1}))

\* end of file: parse_mrrel returns and main() computes the first statistics
ParseReturn ==
  /\ pc = "reading"
  /\ pc' = "parsed"
  /\ stats' = ParseStats(parent_child_edges, broader_than_edges,
                       relationship_types, self_loops, duplicate_edges)
  /\ UNCHANGED <<fileExists, scope, parseVars, log, dfsVars, cycles, btVars,
                 saved, run, prevCycleSets>>

\* ------------------------------------------------- main(): parent-child
\* pc_graph[s].append(t) on a defaultdict(list)
AddEdge(g, s, t) ==
  IF s \in DOMAIN g.adj
  THEN [g EXCEPT !.adj = Put(g.adj, s, Append(g.adj[s], t))]
  ELSE [keys |-> Append(g.keys, s), adj |-> Put(g.adj, s, <<t>>)]

\* lines 192-194: the mappings "for s, t in pc_edges" can build from g, one for
\* each order in which the set pc_edges may be iterated
RECURSIVE GraphsFrom(_, _)
GraphsFrom(edges, g) ==
  IF edges = {} THEN {g}
  ELSE UNION {GraphsFrom(edges \ {e}, AddEdge(g, e[1], e[2])) : e \in edges}

\* graph[node] on a defaultdict(list): a missing key is inserted with []
GetItem(g, node) ==
  IF node \in DOMAIN g.adj THEN g
  ELSE [keys |-> Append(g.keys, node), adj |-> Put(g.adj, node, <<>>)]

\* lines 190-196 and 78-81: the adjacency mapping is built and detect_cycles
\* is entered
PcAnalysis ==
  /\ pc = "parsed"
  /\ scope \in {"parent-child", "both"}
  /\ log' = Append(log, "Analyzing parent-child relationships...")
  /\ \E g \in GraphsFrom(parent_child_edges, EmptyGraph) :
       /\ pc_graph' = g
       /\ roots' = g.keys
  /\ rootIdx' = 1
  /\ visited' = {}
  /\ rec_stack' = {}
  /\ path' = <<>>
  /\ all_cycles' = <<>>
  /\ unique_cycles' = {}
  /\ calls' = <<>>
  /\ pc' = "detect_cycles"
  /\ UNCHANGED <<fileExists, scope, parseVars, stats, cycles, btVars, saved,
                 run, prevCycleSets>>

\* lines 200-201
SkipPcAnalysis ==
  /\ pc = "parsed"
  /\ scope \notin {"parent-child", "both"}
  /\ cycles' = <<>>
  /\ pc' = "bt_branch"
  /\ UNCHANGED <<fileExists, scope, parseVars, stats, log, dfsVars, btVars,
                 saved, run, prevCycleSets>>

\* ----------------------------------------------------------- detect_cycles
Top == calls[Len(calls)]
Pop(s) == SubSeq(s, 1, Len(s) - 1)

\* path.index(node)
Index(p, node) ==
  CHOOSE i \in 1..Len(p) : p[i] = node /\ \A j \in 1..(i - 1) : p[j] # node

CycleSuffix_WholePath(p, node) == p

\* lines 85-86: path[path.index(node):]
CycleSuffix(p, node) == SubSeq(p, Index(p, node), Len(p))

\* line 87: tuple(sorted(cycle))
Normalized(cycle) == SortSeq(cycle, LAMBDA a, b : a < b)

\* lines 106-108: the next element of list(graph); dfs(node, []) is called
\* for it unless it was visited
DfsCallRoot ==
  /\ pc = "detect_cycles"
  /\ calls = <<>>
  /\ rootIdx <= Len(roots)
  /\ rootIdx' = rootIdx + 1
  /\ IF roots[rootIdx] \notin visited
     THEN /\ calls' = <<[node |-> roots[rootIdx], i |-> 0]>>
          /\ path' = <<>>
     ELSE UNCHANGED <<calls, path>>
  /\ UNCHANGED <<pc, fileExists, scope, parseVars, stats, log, pc_graph, roots,
                 visited, rec_stack, all_cycles, unique_cycles, cycles, btVars,
                 saved, run, prevCycleSets>>

\* lines 84-91: the node is on the active path
DfsFoundCycle ==
  /\ pc = "detect_cycles"
  /\ calls # <<>>
  /\ Top.i = 0
  /\ Top.node \in rec_stack
  /\ LET cycle == CycleSuffix(path, Top.node)
         normalized == Normalized(cycle)
     IN IF normalized \notin unique_cycles
        THEN /\ unique_cycles' = unique_cycles \cup {normalized}
             /\ all_cycles' = Append(all_cycles, cycle)
        ELSE UNCHANGED <<unique_cycles, all_cycles>>
  /\ calls' = Pop(calls)
  /\ UNCHANGED <<pc, fileExists, scope, parseVars, stats, log, pc_graph, roots,
                 rootIdx, visited, rec_stack, path, cycles, btVars, saved, run,
                 prevCycleSets>>

DfsAlreadyVisited_CheckedFirst ==
  /\ pc = "detect_cycles"
  /\ calls # <<>>
  /\ Top.i = 0
  /\ Top.node \in visited
  /\ calls' = Pop(calls)
  /\ UNCHANGED <<pc, fileExists, scope, parseVars, stats, log, pc_graph, roots,
                 rootIdx, visited, rec_stack, path, all_cycles, unique_cycles,
                 cycles, btVars, saved, run, prevCycleSets>>

\* lines 93-94: the node was fully explored before
DfsAlreadyVisited ==
  /\ pc = "detect_cycles"
  /\ calls # <<>>
  /\ Top.i = 0
  /\ Top.node \notin rec_stack
  /\ Top.node \in visited
  /\ calls' = Pop(calls)
  /\ UNCHANGED <<pc, fileExists, scope, parseVars, stats, log, pc_graph, roots,
                 rootIdx, visited, rec_stack, path, all_cycles, unique_cycles,
                 cycles, btVars, saved, run, prevCycleSets>>

\* lines 96-100: a new node joins the active path and the loop over
\* graph[node] starts
DfsVisit ==
  /\ pc = "detect_cycles"
  /\ calls # <<>>
  /\ Top.i = 0
  /\ Top.node \notin rec_stack
  /\ Top.node \notin visited
  /\ visited' = visited \cup {Top.node}
  /\ rec_stack' = rec_stack \cup {Top.node}
  /\ path' = Append(path, Top.node)
  /\ pc_graph' = GetItem(pc_graph, Top.node)
  /\ calls' = [calls EXCEPT ![Len(calls)].i = 1]
  /\ UNCHANGED <<pc, fileExists, scope, parseVars, stats, log, roots, rootIdx,
                 all_cycles, unique_cycles, cycles, btVars, saved, run,
                 prevCycleSets>>

\* lines 100-101: dfs(neighbor, path) for the next neighbor
DfsNextNeighbor ==
  /\ pc = "detect_cycles"
  /\ calls # <<>>
  /\ Top.i >= 1
  /\ Top.i <= Len(pc_graph.adj[Top.node])
  /\ calls' = Append([calls EXCEPT ![Len(calls)].i = @ + 1],
                     [node |-> pc_graph.adj[Top.node][Top.i], i |-> 0])
  /\ UNCHANGED <<pc, fileExists, scope, parseVars, stats, log, pc_graph, roots,
                 rootIdx, visited, rec_stack, path, all_cycles, unique_cycles,
                 cycles, btVars, saved, run, prevCycleSets>>

\* lines 103-104: the neighbors are exhausted
DfsReturn ==
  /\ pc = "detect_cycles"
  /\ calls # <<>>
  /\ Top.i >= 1
  /\ Top.i > Len(pc_graph.adj[Top.node])
  /\ path' = Pop(path)
  /\ rec_stack' = rec_stack \ {Top.node}
  /\ calls' = Pop(calls)
  /\ UNCHANGED <<pc, fileExists, scope, parseVars, stats, log, pc_graph, roots,
                 rootIdx, visited, all_cycles, unique_cycles, cycles, btVars,
                 saved, run, prevCycleSets>>

\* lines 110 and 196-199: detect_cycles returns all_cycles to main()
DetectCyclesReturn ==
  /\ pc = "detect_cycles"
  /\ calls = <<>>
  /\ rootIdx > Len(roots)
  /\ cycles' = all_cycles
  /\ stats' = ("Parent-Child Cycle Count" :> Len(all_cycles)) @@ stats
  /\ log' = Append(log, "Detected parent-child cycles")
  /\ pc' = "bt_branch"
  /\ UNCHANGED <<fileExists, scope, parseVars, dfsVars, btVars, saved, run,
                 prevCycleSets>>

\* ------------------------------------------------- main(): broader-than
\* DiGraph.add_edge(u, v): u, then v, joins the nodes if it is new
AddDiEdge(g, u, v) ==
  LET withU == IF u \in Range(g.nodes) THEN g.nodes ELSE Append(g.nodes, u)
      withV == IF v \in Range(withU) THEN withU ELSE Append(withU, v)
  IN [nodes |-> withV, edges |-> g.edges \cup {<<u, v>>}]

\* lines 205-206: the digraphs add_edges_from(bt_edges) can build from g, one
\* for each order in which the set bt_edges may be iterated
RECURSIVE DiGraphsFrom(_, _)
DiGraphsFrom(edges, g) ==
  IF edges = {} THEN {g}
  ELSE UNION {DiGraphsFrom(edges \ {e}, AddDiEdge(g, e[1], e[2])) : e \in edges}

\* breadth-first closure of a set of nodes under the edges
RECURSIVE ReachSet(_, _)
ReachSet(edges, S) ==
  LET T == S \cup {e[2] : e \in {d \in edges : d[1] \in S}}
  IN IF T = S THEN S ELSE ReachSet(edges, T)

Descendants_WithSource(g, node) == ReachSet(g.edges, {node})

\* nx.descendants(graph, node): every node reachable from node, node excluded
Descendants(g, node) == ReachSet(g.edges, {node}) \ {node}

\* breadth-first search from the walks P, all of one length: the first level
\* at which a walk ends in b holds the paths of the least number of edges
RECURSIVE PathsTo(_, _, _, _)
PathsTo(g, P, b, fuel) ==
  LET found == {p \in P : p[Len(p)] = b}
  IN IF found # {} THEN found
     ELSE IF fuel = 0 \/ P = {} THEN {}
     ELSE PathsTo(g,
                  UNION {{Append(p, e[2]) : e \in {d \in g.edges : d[1] = p[Len(p)]}} :
                           p \in P},
                  b, fuel - 1)

\* nx.shortest_path(graph, a, b) returns one path of the least number of
\* edges; which one depends on the iteration order of the adjacency, so any
\* of them may be returned
ShortestPaths(g, a, b) == PathsTo(g, {<<a>>}, b, Len(g.nodes))

WitnessPath_EndpointTwice(path_fwd, path_back) == path_fwd \o path_back

\* line 126: path_fwd + path_back[1:]
WitnessPath(path_fwd, path_back) == path_fwd \o Tail(path_back)

\* lines 203-208 and 115-116: the digraph is built, detect_broader_violations
\* is entered and computes the descendants of every node
BtAnalysis ==
  /\ pc = "bt_branch"
  /\ scope \in {"broader-than", "both"}
  /\ log' = Append(log, "Analyzing broader-than relationships...")
  /\ \E g \in DiGraphsFrom(broader_than_edges, EmptyDiGraph) :
       /\ bt_graph' = g
       /\ descendants' = [node \in Range(g.nodes) |-> Descendants(g, node)]
  /\ violations' = <<>>
  /\ srcIdx' = 1
  /\ pc' = "detect_broader_violations"
  /\ UNCHANGED <<fileExists, scope, parseVars, stats, dfsVars, cycles, saved,
                 run, prevCycleSets>>

\* lines 212-213
SkipBtAnalysis ==
  /\ pc = "bt_branch"
  /\ scope \notin {"broader-than", "both"}
  /\ violations' = <<>>
  /\ pc' = "save"
  /\ UNCHANGED <<fileExists, scope, parseVars, stats, log, dfsVars, cycles,
                 bt_graph, descendants, srcIdx, saved, run,
                 prevCycleSets>>

\* lines 120-127: the body of the inner loop for one dst; the lists that
\* violations may be afterwards
CheckDst(g, desc, src, dst, acc) ==
  IF src \in (IF dst \in DOMAIN desc THEN desc[dst] ELSE {})
  THEN {Append(acc, [source |-> src, target |-> dst,
                     cycle |-> WitnessPath(path_fwd, path_back)]) :
          path_fwd \in ShortestPaths(g, src, dst),
          path_back \in ShortestPaths(g, dst, src)}
  ELSE {acc}

\* lines 119-127: "for dst in descendants[src]" over the dst not yet iterated,
\* in every order the set may be iterated in
RECURSIVE InnerLoop(_, _, _, _, _)
InnerLoop(g, desc, src, todo, acc) ==
  IF todo = {} THEN {acc}
  ELSE UNION {InnerLoop(g, desc, src, todo \ {dst}, next) :
                <<dst, next>> \in
                  UNION {{<<d, n>> : n \in CheckDst(g, desc, src, d, acc)} :
                           d \in todo}}

\* lines 118-127: one iteration of "for src in graph"
ViolNextSrc ==
  /\ pc = "detect_broader_violations"
  /\ srcIdx <= Len(bt_graph.nodes)
  /\ srcIdx' = srcIdx + 1
  /\ violations' \in InnerLoop(bt_graph, descendants, bt_graph.nodes[srcIdx],
                               descendants[bt_graph.nodes[srcIdx]], violations)
  /\ UNCHANGED <<pc, fileExists, scope, parseVars, stats, log, dfsVars, cycles,
                 bt_graph, descendants, saved, run, prevCycleSets>>

\* lines 129 and 208-211: detect_broader_violations returns to main()
DetectViolationsReturn ==
  /\ pc = "detect_broader_violations"
  /\ srcIdx > Len(bt_graph.nodes)
  /\ stats' = ("Broader-Than Violation Count" :> Len(violations)) @@ stats
  /\ log' = Append(log, "Detected broader-than violations")
  /\ pc' = "save"
  /\ UNCHANGED <<fileExists, scope, parseVars, dfsVars, cycles, btVars, saved,
                 run, prevCycleSets>>

\* ------------------------------------------------------------ save_results
\* lines 151-156: the rows of the duplicates file
DuplicateRows(duplicates) ==
  {<<e[1], e[2], duplicates[e]>> : e \in {d \in DOMAIN duplicates : duplicates[d] > 1}}

\* lines 215-217 and 133-168: the one call of save_results
SaveResults ==
  /\ pc = "save"
  /\ saved' = Append(saved, [cycles |-> cycles,
                             violations |-> violations,
                             duplicates |-> DuplicateRows(duplicate_edges),
                             self_loops |-> self_loops,
                             stats |-> stats])
  /\ log' = Append(log, "Analysis complete. Results saved.")
  /\ pc' = "done"
  /\ UNCHANGED <<fileExists, scope, parseVars, stats, dfsVars, cycles, btVars,
                 run, prevCycleSets>>

\* lines 220-221: the program is started again on the same input.  The parse
\* result is a function of the lines read, so the new run resumes from it;
\* what the first run reported is kept for comparison.
MaxRuns == 2

Rerun ==
  /\ pc = "done"
  /\ run < MaxRuns
  /\ run' = run + 1
  /\ prevCycleSets' = {Range(cycles[i]) : i \in 1..Len(cycles)}
  /\ saved' = <<>>
  /\ log' = <<"Parsing input file...">>
  /\ stats' = ParseStats(parent_child_edges, broader_than_edges,
                         relationship_types, self_loops, duplicate_edges)
  /\ pc' = "parsed"
  /\ UNCHANGED <<fileExists, scope, parseVars, dfsVars, cycles, btVars>>

\* --------------------------------------------------------- specifications
NotStarted ==
  /\ nread = 0
  /\ seen = EmptyBag
  /\ parent_child_edges = {}
  /\ broader_than_edges = {}
  /\ duplicate_edges = EmptyMap
  /\ self_loops = {}
  /\ relationship_types = {}

DetectorsIdle ==
  /\ pc_graph = EmptyGraph
  /\ roots = <<>>
  /\ rootIdx = 1
  /\ visited = {}
  /\ rec_stack = {}
  /\ path = <<>>
  /\ all_cycles = <<>>
  /\ unique_cycles = {}
  /\ calls = <<>>
  /\ cycles = <<>>
  /\ bt_graph = EmptyDiGraph
  /\ descendants = EmptyMap
  /\ srcIdx = 1
  /\ violations = <<>>
  /\ saved = <<>>
  /\ run = 1
  /\ prevCycleSets = {}

\* the program is started on a path and a scope
Init ==
  /\ pc = "start"
  /\ fileExists \in BOOLEAN
  /\ scope \in Scopes
  /\ NotStarted
  /\ stats = EmptyMap
  /\ log = <<>>
  /\ DetectorsIdle

Next ==
  \/ ParseFileMissing
  \/ ParseOpen
  \/ ParseLine
  \/ ParseReturn
  \/ PcAnalysis
  \/ SkipPcAnalysis
  \/ DfsCallRoot
  \/ DfsFoundCycle
  \/ DfsAlreadyVisited
  \/ DfsVisit
  \/ DfsNextNeighbor
  \/ DfsReturn
  \/ DetectCyclesReturn
  \/ BtAnalysis
  \/ SkipBtAnalysis
  \/ ViolNextSrc
  \/ DetectViolationsReturn
  \/ SaveResults

Spec == Init /\ [][Next]_vars

\* the edge sets parse_mrrel can return over Nodes: no pair (x, x)
EdgeSets(maxEdges) ==
  {E \in SUBSET {e \in Nodes \X Nodes : e[1] # e[2]} : Cardinality(E) <= maxEdges}

\* main() after parse_mrrel returned, the file holding one line of the given
\* relation for each edge
Parsed(pc_edges, bt_edges, relation) ==
  LET edges == pc_edges \cup bt_edges IN
  /\ fileExists = TRUE
  /\ nread = Cardinality(edges)
  /\ seen = SetToBag({<<e[1], "", "", relation, e[2]>> : e \in edges})
  /\ parent_child_edges = pc_edges
  /\ broader_than_edges = bt_edges
  /\ duplicate_edges = [e \in edges |-> 1]
  /\ self_loops = {}
  /\ relationship_types = IF edges = {} THEN {} ELSE {relation}
  /\ stats = ParseStats(pc_edges, bt_edges,
                        IF edges = {} THEN {} ELSE {relation}, {}, EmptyMap)
  /\ log = <<"Parsing input file...">>
  /\ DetectorsIdle

\* the parent-child analysis, from every parse result of "PAR" lines
InitCycles ==
  /\ pc = "parsed"
  /\ scope = "parent-child"
  /\ \E E \in EdgeSets(MaxEdges) : Parsed(E, {}, "PAR")

NextCycles ==
  \/ PcAnalysis
  \/ DfsCallRoot
  \/ DfsFoundCycle
  \/ DfsAlreadyVisited
  \/ DfsVisit
  \/ DfsNextNeighbor
  \/ DfsReturn
  \/ DetectCyclesReturn

SpecCycles == InitCycles /\ [][NextCycles]_vars

\* the parent-child analysis run again and again on the same parse result
NextRerun ==
  \/ PcAnalysis
  \/ DfsCallRoot
  \/ DfsFoundCycle
  \/ DfsAlreadyVisited
  \/ DfsVisit
  \/ DfsNextNeighbor
  \/ DfsReturn
  \/ DetectCyclesReturn
  \/ SkipBtAnalysis
  \/ SaveResults
  \/ Rerun

SpecRerun == InitCycles /\ [][NextRerun]_vars

\* the broader-than analysis, from every parse result of "RB" lines
InitDominance ==
  /\ pc = "bt_branch"
  /\ scope = "broader-than"
  /\ \E E \in EdgeSets(MaxBtEdges) : Parsed({}, E, "RB")

NextDominance ==
  \/ BtAnalysis
  \/ ViolNextSrc
  \/ DetectViolationsReturn

SpecDominance == InitDominance /\ [][NextDominance]_vars

\* ------------------------------------------------------------- properties
Line(source, relation, target) == <<source, "", "", relation, target>>
Read(source, relation, target) == CopiesIn(Line(source, relation, target), seen)
CycleSets(cs) == {Range(cs[i]) : i \in 1..Len(cs)}

\* the transitive closure of a relation, by composing it with itself
RECURSIVE Closure(_)
Closure(R) ==
  LET R2 == R \cup {<<pq[1][1], pq[2][2]>> : pq \in {x \in R \X R : x[1][2] = x[2][1]}}
  IN IF R2 = R THEN R ELSE Closure(R2)

\* the strongly connected component of node n, given the transitive closure
Component(TC, n) == {n} \cup {m \in Nodes : <<n, m>> \in TC /\ <<m, n>> \in TC}

\* the lines read that had all their fields
FullRead == {l \in BagToSet(seen) : Len(l) >= MinFields}

\* the number of edges of a shortest directed path from a to b (-1: none)
RECURSIVE Layer(_, _, _, _)
Layer(R, S, b, d) ==
  IF b \in S THEN d
  ELSE IF d > Cardinality(R) THEN 0 - 1
  ELSE Layer(R, {e[2] : e \in {x \in R : x[1] \in S}}, b, d + 1)
Dist(R, a, b) == Layer(R, {a}, b, 0)

\* C1: inverse relation codes collapse onto one canonical edge.  The Hierarchy
\* edges are exactly (B, A) for every record (A, CHD, B) read and (A, B) for
\* every record (A, PAR, B) read, and the Dominance edges exactly (A, B) for
\* every record (A, RB, B) and (B, A) for every record (A, RN, B), A and B
\* distinct: the two records of an inverse pair yield the same edge and no
\* record adds any other edge.
C1_InverseCodesCollapse ==
  /\ parent_child_edges =
       {<<l[5], l[1]>> : l \in {x \in FullRead : x[4] = "CHD" /\ x[1] # x[5]}}
         \cup {<<l[1], l[5]>> : l \in {x \in FullRead : x[4] = "PAR" /\ x[1] # x[5]}}
  /\ broader_than_edges =
       {<<l[1], l[5]>> : l \in {x \in FullRead : x[4] = "RB" /\ x[1] # x[5]}}
         \cup {<<l[5], l[1]>> : l \in {x \in FullRead : x[4] = "RN" /\ x[1] # x[5]}}

\* both records of a Hierarchy pair were read and left the one edge (2, 1)
C1_Witness ==
  /\ Read(1, "CHD", 2) = 1
  /\ Read(2, "PAR", 1) = 1
  /\ parent_child_edges = {<<2, 1>>}
  /\ broader_than_edges = {}

\* C2: self-loop exclusion.  Every record read with source = target is in the
\* self-loop set as (id, relation code); no pair (x, x) is a Hierarchy edge, a
\* Dominance edge or a key of the Duplicate Counter; no reported cycle is a
\* single node, no violation has source = target, and when nothing but
\* self-loop records left both edge sets empty no cycle and no violation is
\* reported.
C2_SelfLoopExclusion ==
  /\ \A l \in FullRead : l[1] = l[5] => <<l[1], l[4]>> \in self_loops
  /\ \A e \in parent_child_edges \cup broader_than_edges \cup DOMAIN duplicate_edges :
       e[1] # e[2]
  /\ \A i \in 1..Len(all_cycles) : Len(all_cycles[i]) >= 2
  /\ \A i \in 1..Len(violations) : violations[i].source # violations[i].target
  /\ (parent_child_edges = {} /\ broader_than_edges = {})
       => (all_cycles = <<>> /\ cycles = <<>> /\ violations = <<>>)

\* a run over a file of self-loop records alone, reported
C2_Witness ==
  /\ pc = "done"
  /\ scope = "both"
  /\ Read(1, "PAR", 1) = 1
  /\ Read(2, "RB", 2) = 1
  /\ self_loops = {<<1, "PAR">>, <<2, "RB">>}
  /\ saved[1].cycles = <<>>
  /\ saved[1].violations = <<>>

\* C3: for every canonical edge, the Duplicate Counter equals the number of
\* records read that asserted that fact, in the edge's own family and direction
\* (directly or through the inverse code), also when a Hierarchy record and a
\* Dominance record canonicalize to the same pair.
C3_CountIsAssertionsOfTheFact ==
  /\ \A e \in parent_child_edges :
       duplicate_edges[e] = Read(e[2], "CHD", e[1]) + Read(e[1], "PAR", e[2])
  /\ \A e \in broader_than_edges :
       duplicate_edges[e] = Read(e[1], "RB", e[2]) + Read(e[2], "RN", e[1])

SoundCycle(c) ==
  /\ Len(c) >= 1
  /\ \A i \in 1..Len(c), j \in 1..Len(c) : i # j => c[i] # c[j]
  /\ \A i \in 1..(Len(c) - 1) : <<c[i], c[i + 1]>> \in parent_child_edges
  /\ <<c[Len(c)], c[1]>> \in parent_child_edges

C5_CyclesAreSound ==
  /\ \A i \in 1..Len(all_cycles) : SoundCycle(all_cycles[i])
  /\ \A i \in 1..Len(cycles) : SoundCycle(cycles[i])
  /\ (all_cycles # <<>> \/ cycles # <<>>)
       => \E e \in Closure(parent_child_edges) : e[1] = e[2]

\* a cycle was just recorded that is a proper suffix of the active path
C5_Witness ==
  /\ pc = "detect_cycles"
  /\ all_cycles # <<>>
  /\ Len(path) > Len(all_cycles[Len(all_cycles)])
  /\ all_cycles[Len(all_cycles)]
       = SubSeq(path, Len(path) - Len(all_cycles[Len(all_cycles)]) + 1, Len(path))

\* C6: detect_broader_violations returns exactly one violation for each
\* ordered pair of distinct nodes that are mutually reachable in the Dominance
\* graph and no other violation: both orders of a pair are reported, no
\* violation has source = target, and a graph without a directed cycle yields
\* none.
MutualPairs ==
  LET TC == Closure(broader_than_edges)
  IN {e \in TC : e[1] # e[2] /\ <<e[2], e[1]>> \in TC}

C6_OneViolationPerMutualPair ==
  LET reported == {<<violations[i].source, violations[i].target>> :
                     i \in 1..Len(violations)}
  IN /\ Cardinality(reported) = Len(violations)
     /\ violations # <<>> => reported \subseteq MutualPairs
     /\ pc = "save" => reported = MutualPairs

\* the violations of a loop over three nodes were returned: six ordered pairs
C6_Witness ==
  /\ pc = "save"
  /\ Len(violations) = 6
  /\ Cardinality(broader_than_edges) = 3

\* C7: every reported violation carries a valid witness.  Its path starts and
\* ends at the source, holds the target at position dist(source, target)
\* (counted from 0), has dist(source, target) + dist(target, source) + 1
\* nodes, and every two consecutive nodes are joined by a Dominance edge.
ValidWitness(v) ==
  LET fwd == Dist(broader_than_edges, v.source, v.target)
      back == Dist(broader_than_edges, v.target, v.source)
  IN /\ fwd >= 1
     /\ back >= 1
     /\ Len(v.cycle) = fwd + back + 1
     /\ v.cycle[1] = v.source
     /\ v.cycle[Len(v.cycle)] = v.source
     /\ v.cycle[fwd + 1] = v.target
     /\ \A i \in 1..(Len(v.cycle) - 1) :
          <<v.cycle[i], v.cycle[i + 1]>> \in broader_than_edges

C7_WitnessPathValid ==
  \A i \in 1..Len(violations) : ValidWitness(violations[i])

\* the violations of a loop over three nodes were returned, one of them with
\* its target two edges away from its source and one edge back
C7_Witness ==
  /\ pc = "save"
  /\ \E i \in 1..Len(violations) :
       /\ Len(violations[i].cycle) = 4
       /\ violations[i].cycle[3] = violations[i].target
       /\ <<violations[i].source, violations[i].target>> \notin broader_than_edges

\* C8: the pipeline is deterministic on its input.  A run over the same input
\* as the run before it (the same edge sets, which the rerun carries over)
\* reports the same set of cycle vertex sets, whatever order the edge set was
\* iterated in when the adjacency mapping was built and whatever order the
\* roots and successors were then traversed in.
C8_RerunReportsSameCycleSets ==
  (pc = "done" /\ run > 1) => CycleSets(saved[1].cycles) = prevCycleSets

C10_NoNestedDfsCalls == Len(calls) <= 1
====
